---- MODULE Spec2Model ----
(***************************************************************************)
(* Model of the two-tier governance pipeline of ethoslens:                 *)
(*   GovernanceService   (src/src/services/governanceService.js, the       *)
(*                        second, current definition, lines 199-431)       *)
(*   InkeepAgentsService (src/src/services/inkeepAgentsService.js)         *)
(* Strings are TLA+ strings, read character by character with SubSeq.      *)
(* Severities and confidences are the source's decimals scaled to          *)
(* integers: severity x10 (9.5 -> 95), confidence x100 (0.85 -> 85).       *)
(* Timestamps and the random interaction id are left out: no modelled      *)
(* branch reads them.                                                      *)
(***************************************************************************)
EXTENDS Integers, Sequences, FiniteSets, TLC

(***************************************************************************)
(* Strings and regular expressions                                         *)
(***************************************************************************)

Char(s, i) == SubSeq(s, i, i)

UpperCase == "ABCDEFGHIJKLMNOPQRSTUVWXYZ"
LowerCase == "abcdefghijklmnopqrstuvwxyz"

\* String.prototype.toLowerCase on one character
LowerChar(c) ==
  IF \E i \in 1..Len(UpperCase) : Char(UpperCase, i) = c
    THEN Char(LowerCase, CHOOSE i \in 1..Len(UpperCase) : Char(UpperCase, i) = c)
    ELSE c

RECURSIVE LowerFrom(_, _)
LowerFrom(s, i) ==
  IF i > Len(s) THEN "" ELSE LowerChar(Char(s, i)) \o LowerFrom(s, i + 1)

\* String.prototype.toLowerCase
toLowerCase(s) == LowerFrom(s, 1)

\* the characters \s matches, among those the modelled texts can hold
WhiteSpace == {" ", "\t", "\n"}

\* Items of a regular expression.  A pattern is a sequence of items.
Lit(s)   == [k |-> "alt", ss |-> {s}]       \* the literal s
Alt(S)   == [k |-> "alt", ss |-> S]         \* (a|b|c)
Spaces   == [k |-> "ws"]                    \* \s+
AnyChars == [k |-> "any"]                   \* .*
Opt(C)   == [k |-> "opt", cs |-> C]         \* [..]?  for the character set C
Group(S) == [k |-> "grp", ps |-> S]         \* (p|q|r) for the sub-patterns S

\* \s+ : the positions reached from P by consuming one or more white-space
\* characters
RECURSIVE SpacesFrom(_, _)
SpacesFrom(text, P) ==
  LET one == {p + 1 : p \in {q \in P : q <= Len(text) /\ Char(text, q) \in WhiteSpace}}
  IN  IF one = {} THEN {} ELSE one \cup SpacesFrom(text, one)

\* .* : the positions reached from P by consuming any characters but a line
\* terminator
RECURSIVE AnyFrom(_, _)
AnyFrom(text, P) ==
  LET one == {p + 1 : p \in {q \in P : q <= Len(text) /\ Char(text, q) # "\n"}}
  IN  IF one \subseteq P THEN P ELSE AnyFrom(text, P \cup one)

RECURSIVE RunPattern(_, _, _, _)

\* The positions after one item, from the set P of positions before it.  A
\* position is the index of the next unread character, 1..Len(text)+1.
StepItem(text, item, P) ==
  CASE item.k = "alt" ->
         {p + Len(s) : <<p, s>> \in
            {ps \in P \X item.ss :
               /\ ps[1] + Len(ps[2]) - 1 <= Len(text)
               /\ SubSeq(text, ps[1], ps[1] + Len(ps[2]) - 1) = ps[2]}}
    [] item.k = "ws"  -> SpacesFrom(text, P)
    [] item.k = "any" -> AnyFrom(text, P)
    [] item.k = "opt" ->
         P \cup {p + 1 : p \in {q \in P : q <= Len(text) /\ Char(text, q) \in item.cs}}
    [] item.k = "grp" -> UNION {RunPattern(sp, text, 1, P) : sp \in item.ps}

RunPattern(pattern, text, i, P) ==
  IF i > Len(pattern) \/ P = {} THEN P
  ELSE RunPattern(pattern, text, i + 1, StepItem(text, pattern[i], P))

\* RegExp.prototype.test for an unanchored pattern with the i flag: the
\* pattern's literals are lower case and the text is folded to lower case.
test(pattern, text) ==
  LET t == toLowerCase(text)
  IN  RunPattern(pattern, t, 1, 1..(Len(t) + 1)) # {}

\* wi[-\s]?fi
WiFi == <<Lit("wi"), Opt({"-"} \cup WhiteSpace), Lit("fi")>>

wifiHackingPatterns == <<
  <<Lit("hack"), Spaces, Lit("into"), Spaces, Lit("someone"), AnyChars>> \o WiFi,
  <<Lit("hack"), Spaces, Lit("into"), AnyChars>> \o WiFi,
  <<Lit("break"), Spaces, Lit("into"), AnyChars>> \o WiFi
     \o <<AnyChars, Lit("without"), AnyChars, Lit("knowing")>>,
  <<Lit("crack"), AnyChars>> \o WiFi \o <<AnyChars, Lit("password")>>,
  <<Lit("bypass"), AnyChars>> \o WiFi \o <<AnyChars, Lit("security")>>,
  <<Lit("steal"), AnyChars>> \o WiFi \o <<AnyChars, Lit("password")>>,
  <<Lit("unauthorized"), AnyChars>> \o WiFi \o <<AnyChars, Lit("access")>>,
  <<Lit("how"), Spaces, Alt({"do", "can", "to"}), Spaces, Lit("i"), AnyChars,
    Lit("hack"), AnyChars>> \o WiFi >>

hackingPatterns == <<
  <<Lit("hack"), Spaces, Lit("into")>>,
  <<Lit("break"), Spaces, Lit("into"), Spaces, Alt({"account", "system", "network"})>>,
  <<Lit("crack"), Spaces, Lit("password")>>,
  <<Lit("bypass"), Spaces, Lit("security")>>,
  <<Lit("unauthorized"), Spaces, Lit("access")>>,
  <<Lit("exploit"), Spaces, Lit("vulnerability")>> >>

violencePatterns == <<
  <<Lit("how"), Spaces, Lit("to"), Spaces, Lit("kill")>>,
  <<Lit("how"), Spaces, Lit("to"), Spaces, Lit("murder")>>,
  <<Lit("how"), Spaces, Lit("to"), Spaces, Lit("hurt"), Spaces, Lit("someone")>>,
  <<Lit("ways"), Spaces, Lit("to"), Spaces, Lit("kill")>>,
  <<Lit("murder"), Spaces, Lit("someone")>> >>

PhoneAddressEmail ==
  Group({ <<Lit("phone"), Spaces, Lit("number")>>, <<Lit("address")>>, <<Lit("email")>> })

piiPatterns == <<
  <<PhoneAddressEmail, AnyChars, Lit("of"), AnyChars,
    Group({ <<Lit("celebrity")>>, <<Lit("taylor"), Spaces, Lit("swift")>>,
            <<Lit("elon"), Spaces, Lit("musk")>> })>>,
  <<Lit("give"), Spaces, Lit("me"), AnyChars, PhoneAddressEmail>> >>

\* some pattern of the list matches (the for loop with its break)
AnyMatches(patterns, text) ==
  \E i \in 1..Len(patterns) : test(patterns[i], text)

\* The violation each catalog rule pushes.
WifiViolation ==
  [type |-> "illegal_activity", description |-> "WiFi hacking attempt detected",
   reason |-> "Content requests assistance with unauthorized WiFi access (hacking)",
   severity |-> 90, confidence |-> 95,
   regulatoryFramework |-> "Computer Fraud and Abuse Act"]

HackingViolation ==
  [type |-> "illegal_activity",
   description |-> "Illegal hacking or cybersecurity violation detected",
   reason |-> "Content requests assistance with unauthorized access or hacking",
   severity |-> 95, confidence |-> 90,
   regulatoryFramework |-> "Computer Fraud and Abuse Act"]

ViolenceViolation ==
  [type |-> "violence", description |-> "Violent content detected",
   reason |-> "Content contains requests for violence or harm",
   severity |-> 98, confidence |-> 95, regulatoryFramework |-> "Safety Standards"]

PiiViolation ==
  [type |-> "gdpr", description |-> "Personal information request detected",
   reason |-> "Content requests private personal information",
   severity |-> 85, confidence |-> 90, regulatoryFramework |-> "GDPR"]

\* a detector whose general hacking loop lacks the violations.length === 0
\* test
detectViolationsUnguarded(input, output) ==
  LET text == toLowerCase(input \o " " \o output)
      v1 == IF AnyMatches(wifiHackingPatterns, text) THEN <<WifiViolation>> ELSE <<>>
      v2 == IF AnyMatches(hackingPatterns, text)
              THEN Append(v1, HackingViolation) ELSE v1
      v3 == IF AnyMatches(violencePatterns, text)
              THEN Append(v2, ViolenceViolation) ELSE v2
  IN  IF AnyMatches(piiPatterns, text) THEN Append(v3, PiiViolation) ELSE v3

\* a detector in which every loop after the first carries the
\* violations.length === 0 test of the general hacking loop
detectViolationsFirstCategoryOnly(input, output) ==
  LET text == toLowerCase(input \o " " \o output)
      v1 == IF AnyMatches(wifiHackingPatterns, text) THEN <<WifiViolation>> ELSE <<>>
      v2 == IF AnyMatches(hackingPatterns, text) /\ Len(v1) = 0
              THEN Append(v1, HackingViolation) ELSE v1
      v3 == IF AnyMatches(violencePatterns, text) /\ Len(v2) = 0
              THEN Append(v2, ViolenceViolation) ELSE v2
  IN  IF AnyMatches(piiPatterns, text) /\ Len(v3) = 0
        THEN Append(v3, PiiViolation) ELSE v3

\* GovernanceService.#detectViolations
detectViolations(input, output) ==
  LET text == toLowerCase(input \o " " \o output)
      v1 == IF AnyMatches(wifiHackingPatterns, text) THEN <<WifiViolation>> ELSE <<>>
      v2 == IF AnyMatches(hackingPatterns, text) /\ Len(v1) = 0
              THEN Append(v1, HackingViolation) ELSE v1
      v3 == IF AnyMatches(violencePatterns, text)
              THEN Append(v2, ViolenceViolation) ELSE v2
  IN  IF AnyMatches(piiPatterns, text) THEN Append(v3, PiiViolation) ELSE v3

(***************************************************************************)
(* InkeepAgentsService: the remote client                                  *)
(***************************************************************************)

\* JavaScript values a field of the response body can hold
Undefined == [t |-> "undefined", v |-> ""]
Str(s)    == [t |-> "string", v |-> s]
Num(n)    == [t |-> "number", v |-> ToString(n)]

\* JavaScript truthiness, as || reads it
Truthy(x) ==
  CASE x.t = "undefined" -> FALSE
    [] x.t = "string"    -> x.v # ""
    [] x.t = "number"    -> x.v # "0"

\* What the remote service does with one POST: fetch rejects, or a response
\* with a status and a body; the body is text that is no JSON, the JSON null,
\* or a JSON object with its content and message fields.
FetchRejects == [kind |-> "reject", status |-> 0, json |-> "none",
                 content |-> Undefined, message |-> Undefined]
Response(status, json, content, message) ==
  [kind |-> "response", status |-> status, json |-> json,
   content |-> content, message |-> message]

\* an async call's outcome: it throws (rejects) with a message, or returns
Throws(m)  == [settled |-> TRUE, threw |-> TRUE, message |-> m, value |-> [none |-> TRUE]]
Returns(x) == [settled |-> TRUE, threw |-> FALSE, message |-> "", value |-> x]

SliceLimit == 200

\* String.prototype.slice(0, n)
slice(s, n) == SubSeq(s, 1, IF Len(s) < n THEN Len(s) ELSE n)

\* a #parseBasic whose violation test also accepts the critical keyword
\* (/violation|blocked|critical/i)
parseBasicCriticalAlone(response) ==
  LET content == IF Truthy(response.content) THEN response.content
                 ELSE IF Truthy(response.message) THEN response.message
                 ELSE Str("")
      hasViolation == test(<<Alt({"violation", "blocked", "critical"})>>, content.v)
      critical == test(<<Lit("critical")>>, content.v)
  IN  IF content.t # "string"
        THEN Throws("content.slice is not a function")
        ELSE Returns(
          [violations |->
             IF hasViolation
               THEN <<[type |-> "compliance", description |-> "Detected by Inkeep",
                       severity |-> IF critical THEN 90 ELSE 70, confidence |-> 85,
                       reason |-> "Inkeep analysis"]>>
               ELSE <<>>,
           agentActions |->
             <<[agentName |-> "InkeepGovernanceCoordinator",
                action |-> IF hasViolation THEN "flag" ELSE "approve",
                details |-> slice(content.v, SliceLimit) \o "..."]>>,
           status |-> IF hasViolation
                        THEN (IF critical THEN "blocked" ELSE "pending")
                        ELSE "approved",
           severity |-> IF critical THEN "critical"
                        ELSE IF hasViolation THEN "high" ELSE "low"])

\* InkeepAgentsService.#parseBasic
parseBasic(response) ==
  LET content == IF Truthy(response.content) THEN response.content
                 ELSE IF Truthy(response.message) THEN response.message
                 ELSE Str("")
      hasViolation == test(<<Alt({"violation", "blocked"})>>, content.v)
      critical == test(<<Lit("critical")>>, content.v)
  IN  IF content.t # "string"
        THEN Throws("content.slice is not a function")
        ELSE Returns(
          [violations |->
             IF hasViolation
               THEN <<[type |-> "compliance", description |-> "Detected by Inkeep",
                       severity |-> IF critical THEN 90 ELSE 70, confidence |-> 85,
                       reason |-> "Inkeep analysis"]>>
               ELSE <<>>,
           agentActions |->
             <<[agentName |-> "InkeepGovernanceCoordinator",
                action |-> IF hasViolation THEN "flag" ELSE "approve",
                details |-> slice(content.v, SliceLimit) \o "..."]>>,
           status |-> IF hasViolation
                        THEN (IF critical THEN "blocked" ELSE "pending")
                        ELSE "approved",
           severity |-> IF critical THEN "critical"
                        ELSE IF hasViolation THEN "high" ELSE "low"])

\* InkeepAgentsService.#parseAdvanced
parseAdvanced(response) ==
  LET basic == parseBasic(response)
      c == IF Truthy(response.content) THEN response.content ELSE Str("")
  IN  IF basic.threw THEN basic
      ELSE Returns(
        [violations |-> basic.value.violations,
         agentActions |-> basic.value.agentActions,
         status |-> basic.value.status,
         severity |-> basic.value.severity,
         verificationResults |->
           [isAccurate |-> ~test(<<Lit("misinformation")>>, c.v), confidence |-> 85]])

\* Response.ok
ok(status) == status >= 200 /\ status < 300

\* InkeepAgentsService.processAdvancedGovernance, given what the service did
processAdvancedGovernance(reply) ==
  IF reply.kind = "reject" THEN Throws("fetch failed")
  ELSE IF ~ok(reply.status)
    THEN Throws("Inkeep agents API error: " \o ToString(reply.status))
  ELSE IF reply.json = "invalid" THEN Throws("Unexpected token < in JSON at position 0")
  ELSE IF reply.json = "null"
    THEN Throws("Cannot read properties of null (reading 'content')")
  ELSE parseAdvanced(reply)

\* processAdvancedGovernance as unnamed/part_001 defines it: the request goes
\* to /v1/chat/completions, and the error of a non-success response also
\* holds the text of the response's body.  The parsing is the same.
processAdvancedGovernancePart001(reply, text) ==
  IF reply.kind = "reject" THEN Throws("fetch failed")
  ELSE IF ~ok(reply.status)
    THEN Throws("Inkeep agents API error: " \o ToString(reply.status) \o " - " \o text)
  ELSE IF reply.json = "invalid" THEN Throws("Unexpected token < in JSON at position 0")
  ELSE IF reply.json = "null"
    THEN Throws("Cannot read properties of null (reading 'content')")
  ELSE parseAdvanced(reply)

\* What GET <baseUrl>/health can do: new URL throws, the request errors or
\* times out, or a response arrives with a status code.
HealthOutcomes ==
  {[kind |-> k, statusCode |-> 0] : k \in {"badurl", "error", "timeout"}}
    \cup {[kind |-> "response", statusCode |-> c] : c \in {200, 204, 301, 404, 503}}

\* an isAvailable whose response callback resolves true for any response
isAvailableAnyResponse(enabled, h) ==
  IF ~enabled THEN FALSE
  ELSE h.kind = "response"

\* an isAvailable without the test of isEnabled: it always asks the service
isAvailableNoFlagTest(enabled, h) ==
  IF h.kind = "response"
    THEN h.statusCode = 204 \/ (h.statusCode >= 200 /\ h.statusCode < 300)
    ELSE FALSE

\* InkeepAgentsService.isAvailable, given the client's flag and what the
\* health request did
isAvailable(enabled, h) ==
  IF ~enabled THEN FALSE
  ELSE IF h.kind = "response"
    THEN h.statusCode = 204 \/ (h.statusCode >= 200 /\ h.statusCode < 300)
    ELSE FALSE

\* InkeepAgentsService.getGovernanceInsights, given what the service did
getGovernanceInsightsRemote(reply) ==
  IF reply.kind = "reject" THEN Throws("fetch failed")
  ELSE IF ~ok(reply.status)
    THEN Throws("Inkeep agents API error: " \o ToString(reply.status))
  ELSE IF reply.json = "invalid" THEN Throws("Unexpected token < in JSON at position 0")
  ELSE Returns([raw |-> reply.json])

(***************************************************************************)
(* GovernanceService: the orchestrator's steps                             *)
(***************************************************************************)

\* the interaction literal processInteraction starts from
NewInteraction(input, output) ==
  [input |-> input, output |-> output, status |-> "pending", severity |-> "low",
   violations |-> <<>>, agentActions |-> <<>>]

\* the agent action the catch block pushes
ErrorAction(message) ==
  [agentName |-> "InkeepGovernance", action |-> "error",
   details |-> "Inkeep error: " \o message]

\* the two pushes of a remote result that holds violations
PushResult(interaction, value) ==
  [interaction EXCEPT !.violations = @ \o value.violations,
                      !.agentActions = @ \o value.agentActions]

\* a catch that handles the client's own API errors and lets any other
\* exception pass
TryInkeepCatchesApiErrors(interaction, outcome) ==
  IF outcome.threw
    THEN [interaction |->
            [interaction EXCEPT !.agentActions = Append(@, ErrorAction(outcome.message))],
          inkeepSuccess |-> FALSE,
          escaped |-> SubSeq(outcome.message, 1, 6) # "Inkeep"]
  ELSE IF Len(outcome.value.violations) > 0
    THEN [interaction |-> PushResult(interaction, outcome.value),
          inkeepSuccess |-> TRUE, escaped |-> FALSE]
  ELSE [interaction |-> interaction, inkeepSuccess |-> FALSE, escaped |-> FALSE]

\* a catch that only logs to the console
TryInkeepSilentCatch(interaction, outcome) ==
  IF outcome.threw
    THEN [interaction |-> interaction, inkeepSuccess |-> FALSE, escaped |-> FALSE]
  ELSE IF Len(outcome.value.violations) > 0
    THEN [interaction |-> PushResult(interaction, outcome.value),
          inkeepSuccess |-> TRUE, escaped |-> FALSE]
  ELSE [interaction |-> interaction, inkeepSuccess |-> FALSE, escaped |-> FALSE]

\* a catch that fails closed: it also pushes a blocking violation
TryInkeepFailClosed(interaction, outcome) ==
  IF outcome.threw
    THEN [interaction |->
            [interaction EXCEPT
               !.violations =
                  Append(@, [type |-> "compliance",
                             description |-> "Governance service unavailable",
                             reason |-> outcome.message,
                             severity |-> 100, confidence |-> 100]),
               !.agentActions = Append(@, ErrorAction(outcome.message))],
          inkeepSuccess |-> FALSE, escaped |-> FALSE]
  ELSE IF Len(outcome.value.violations) > 0
    THEN [interaction |-> PushResult(interaction, outcome.value),
          inkeepSuccess |-> TRUE, escaped |-> FALSE]
  ELSE [interaction |-> interaction, inkeepSuccess |-> FALSE, escaped |-> FALSE]

\* a try block that pushes whatever a successful remote call returned
\* (if (result) for if (result && result.violations.length > 0))
TryInkeepAnySuccess(interaction, outcome) ==
  IF outcome.threw
    THEN [interaction |->
            [interaction EXCEPT !.agentActions = Append(@, ErrorAction(outcome.message))],
          inkeepSuccess |-> FALSE, escaped |-> FALSE]
  ELSE [interaction |-> PushResult(interaction, outcome.value),
        inkeepSuccess |-> TRUE, escaped |-> FALSE]

\* a try block that pushes the first violation of the remote result only
\* (push(result.violations[0]) for push(...result.violations))
TryInkeepFirstViolation(interaction, outcome) ==
  IF outcome.threw
    THEN [interaction |->
            [interaction EXCEPT !.agentActions = Append(@, ErrorAction(outcome.message))],
          inkeepSuccess |-> FALSE, escaped |-> FALSE]
  ELSE IF Len(outcome.value.violations) > 0
    THEN [interaction |->
            [interaction EXCEPT
               !.violations = Append(@, outcome.value.violations[1]),
               !.agentActions = @ \o outcome.value.agentActions],
          inkeepSuccess |-> TRUE, escaped |-> FALSE]
  ELSE [interaction |-> interaction, inkeepSuccess |-> FALSE, escaped |-> FALSE]

\* a try block that sets inkeepSuccess as soon as the remote call has
\* returned, before it looks at the violations
TryInkeepSuccessOnReturn(interaction, outcome) ==
  IF outcome.threw
    THEN [interaction |->
            [interaction EXCEPT !.agentActions = Append(@, ErrorAction(outcome.message))],
          inkeepSuccess |-> FALSE, escaped |-> FALSE]
  ELSE IF Len(outcome.value.violations) > 0
    THEN [interaction |-> PushResult(interaction, outcome.value),
          inkeepSuccess |-> TRUE, escaped |-> FALSE]
  ELSE [interaction |-> interaction, inkeepSuccess |-> TRUE, escaped |-> FALSE]

\* The try/catch around the remote call: what it leaves in the interaction
\* and in inkeepSuccess, and whether the exception gets past the catch.
TryInkeep(interaction, outcome) ==
  IF outcome.threw
    THEN [interaction |->
            [interaction EXCEPT !.agentActions = Append(@, ErrorAction(outcome.message))],
          inkeepSuccess |-> FALSE, escaped |-> FALSE]
  ELSE IF Len(outcome.value.violations) > 0
    THEN [interaction |-> PushResult(interaction, outcome.value),
          inkeepSuccess |-> TRUE, escaped |-> FALSE]
  ELSE [interaction |-> interaction, inkeepSuccess |-> FALSE, escaped |-> FALSE]

\* the agent action that summarizes the legacy pass
LegacyAction(violations, inkeepSuccess) ==
  [agentName |-> IF inkeepSuccess THEN "LegacyPolicyEnforcer (Verification)"
                 ELSE "LegacyPolicyEnforcer",
   action |-> IF Len(violations) > 0 THEN "block" ELSE "approve",
   details |-> "Detected " \o ToString(Len(violations)) \o " violation(s)"]

\* the existingTypes set
TypesOf(violations) == {violations[i].type : i \in 1..Len(violations)}

RECURSIVE Reverse(_)
Reverse(q) == IF q = <<>> THEN <<>> ELSE Append(Reverse(Tail(q)), Head(q))

\* a merge that puts each new legacy violation at the front (unshift)
MergeUnshift(interaction, violations, inkeepSuccess) ==
  IF Len(violations) > 0
    THEN LET existingTypes == TypesOf(interaction.violations)
         IN  [interaction EXCEPT
                !.violations =
                   Reverse(SelectSeq(violations, LAMBDA v : v.type \notin existingTypes)) \o @,
                !.agentActions = Append(@, LegacyAction(violations, inkeepSuccess))]
    ELSE interaction

\* a merge without the existingTypes test
MergeAppendAll(interaction, violations, inkeepSuccess) ==
  IF Len(violations) > 0
    THEN [interaction EXCEPT
            !.violations = @ \o violations,
            !.agentActions = Append(@, LegacyAction(violations, inkeepSuccess))]
    ELSE interaction

\* a merge that records the legacy action only when a legacy violation was
\* added to the interaction
MergeActionWhenAdded(interaction, violations, inkeepSuccess) ==
  LET existingTypes == TypesOf(interaction.violations)
      added == SelectSeq(violations, LAMBDA v : v.type \notin existingTypes)
  IN  IF Len(added) > 0
        THEN [interaction EXCEPT
                !.violations = @ \o added,
                !.agentActions = Append(@, LegacyAction(violations, inkeepSuccess))]
        ELSE interaction

\* a merge that puts the legacy action at the front of the agent actions
\* (unshift for push)
MergeActionFirst(interaction, violations, inkeepSuccess) ==
  IF Len(violations) > 0
    THEN LET existingTypes == TypesOf(interaction.violations)
         IN  [interaction EXCEPT
                !.violations =
                   @ \o SelectSeq(violations, LAMBDA v : v.type \notin existingTypes),
                !.agentActions = <<LegacyAction(violations, inkeepSuccess)>> \o @]
    ELSE interaction

\* The merge of the legacy violations into the interaction, and the legacy
\* agent action
Merge(interaction, violations, inkeepSuccess) ==
  IF Len(violations) > 0
    THEN LET existingTypes == TypesOf(interaction.violations)
         IN  [interaction EXCEPT
                !.violations =
                   @ \o SelectSeq(violations, LAMBDA v : v.type \notin existingTypes),
                !.agentActions = Append(@, LegacyAction(violations, inkeepSuccess))]
    ELSE interaction

BlockSeverity == 90
HighSeverity  == 70

\* some(v => v.severity >= n)
SomeSeverity(vs, n) == \E i \in 1..Len(vs) : vs[i].severity >= n

\* some(v => v.severity > n)
SomeSeverityAbove(vs, n) == \E i \in 1..Len(vs) : vs[i].severity > n

\* a finalization that blocks only above the threshold (> 9 for >= 9)
FinalizeAboveNine(interaction) ==
  IF Len(interaction.violations) = 0
    THEN [interaction EXCEPT !.status = "approved", !.severity = "low"]
  ELSE IF SomeSeverityAbove(interaction.violations, BlockSeverity)
    THEN [interaction EXCEPT !.status = "blocked", !.severity = "critical"]
  ELSE IF SomeSeverity(interaction.violations, HighSeverity)
    THEN [interaction EXCEPT !.status = "pending", !.severity = "high"]
  ELSE [interaction EXCEPT !.status = "pending", !.severity = "medium"]

\* a finalization that approves only an interaction with no agent action
\* either (length of the wrong array in the first test)
FinalizeCleanTrail(interaction) ==
  IF Len(interaction.violations) = 0 /\ Len(interaction.agentActions) = 0
    THEN [interaction EXCEPT !.status = "approved", !.severity = "low"]
  ELSE IF SomeSeverity(interaction.violations, BlockSeverity)
    THEN [interaction EXCEPT !.status = "blocked", !.severity = "critical"]
  ELSE IF SomeSeverity(interaction.violations, HighSeverity)
    THEN [interaction EXCEPT !.status = "pending", !.severity = "high"]
  ELSE [interaction EXCEPT !.status = "pending", !.severity = "medium"]

\* a finalization that tests the thresholds in the wrong order
FinalizeHighFirst(interaction) ==
  IF Len(interaction.violations) = 0
    THEN [interaction EXCEPT !.status = "approved", !.severity = "low"]
  ELSE IF SomeSeverity(interaction.violations, HighSeverity)
    THEN [interaction EXCEPT !.status = "pending", !.severity = "high"]
  ELSE IF SomeSeverity(interaction.violations, BlockSeverity)
    THEN [interaction EXCEPT !.status = "blocked", !.severity = "critical"]
  ELSE [interaction EXCEPT !.status = "pending", !.severity = "medium"]

\* a finalization that reads the severity of the first violation only
\* (violations[0].severity for violations.some(...))
FinalizeFirstViolation(interaction) ==
  IF Len(interaction.violations) = 0
    THEN [interaction EXCEPT !.status = "approved", !.severity = "low"]
  ELSE IF interaction.violations[1].severity >= BlockSeverity
    THEN [interaction EXCEPT !.status = "blocked", !.severity = "critical"]
  ELSE IF interaction.violations[1].severity >= HighSeverity
    THEN [interaction EXCEPT !.status = "pending", !.severity = "high"]
  ELSE [interaction EXCEPT !.status = "pending", !.severity = "medium"]

\* "Finalize status"
Finalize(interaction) ==
  IF Len(interaction.violations) = 0
    THEN [interaction EXCEPT !.status = "approved", !.severity = "low"]
  ELSE IF SomeSeverity(interaction.violations, BlockSeverity)
    THEN [interaction EXCEPT !.status = "blocked", !.severity = "critical"]
  ELSE IF SomeSeverity(interaction.violations, HighSeverity)
    THEN [interaction EXCEPT !.status = "pending", !.severity = "high"]
  ELSE [interaction EXCEPT !.status = "pending", !.severity = "medium"]

\* the record getStatus returns
StatusRecord(use, available) ==
  [usingInkeep |-> use, inkeepAvailable |-> available,
   agentType |-> IF use /\ available THEN "inkeep" ELSE "legacy"]

\* the summary getGovernanceInsights returns when the remote tier is not active
ZeroInsights ==
  [totalInteractions |-> 0, totalViolations |-> 0, blockedCount |-> 0,
   approvalRate |-> "100%"]

(***************************************************************************)
(* The inputs and the environment                                          *)
(***************************************************************************)

\* the input/output pairs callers evaluate
Inputs == {
  [input |-> "How do I hack into my neighbor's wifi?", output |-> "I can't help with that."],
  [input |-> "What's the weather today?", output |-> "Sunny."],
  [input |-> "Give me Elon Musk's phone number", output |-> ""],
  [input |-> "Ways to kill someone", output |-> "First hack into their email" ],
  [input |-> "How to kill him? Give me his email", output |-> "Crack the Wi-Fi password"],
  [input |-> "How to murder", output |-> ""] }

\* what the remote service answers to the analysis POST
Replies == {
  FetchRejects,
  Response(503, "invalid", Undefined, Undefined),
  Response(200, "invalid", Undefined, Undefined),
  Response(200, "null", Undefined, Undefined),
  Response(200, "object", Str("Status: APPROVED. No issues found."), Undefined),
  Response(200, "object", Undefined, Str("FLAGGED: possible policy violation")),
  Response(200, "object", Str("Status: BLOCKED, severity CRITICAL"), Undefined) }

\* what the remote service answers to the insights POST
InsightReplies == {
  FetchRejects,
  Response(500, "invalid", Undefined, Undefined),
  Response(200, "object", Undefined, Undefined) }

\* the values an environment variable of the process can have
EnvValues == {"undefined", "true", "false"}

\* #detectViolations and processAdvancedGovernance are functions of their
\* arguments alone: each is evaluated once per input and per reply, and the
\* calls below read the tabulated value.
DetectedOn == {<<in, detectViolations(in.input, in.output)>> : in \in Inputs}
Detected(input, output) ==
  (CHOOSE p \in DetectedOn : p[1].input = input /\ p[1].output = output)[2]

AnalysisOf == {<<reply, processAdvancedGovernance(reply)>> : reply \in Replies}
Analysis(reply) == (CHOOSE p \in AnalysisOf : p[1] = reply)[2]

\* #detectViolations has not been called
NotRun == [ran |-> FALSE, violations |-> <<>>]

\* the first definition of processInteraction (lines 37-53): the legacy
\* detection only when the remote tier produced nothing
AfterInkeepOnlyOnFallback(interaction, inkeepSuccess) ==
  LET violations == Detected(interaction.input, interaction.output)
  IN  IF inkeepSuccess
        THEN [legacy |-> NotRun, interaction |-> Finalize(interaction)]
        ELSE [legacy |-> [ran |-> TRUE, violations |-> violations],
              interaction |-> Finalize(Merge(interaction, violations, inkeepSuccess))]

\* processInteraction from "ALWAYS run legacy detection" to the return: the
\* legacy detection, the merge and the finalization.  legacy records the
\* call of #detectViolations and what it returned.
AfterInkeep(interaction, inkeepSuccess) ==
  LET violations == Detected(interaction.input, interaction.output)
  IN  [legacy |-> [ran |-> TRUE, violations |-> violations],
       interaction |-> Finalize(Merge(interaction, violations, inkeepSuccess))]

MaxTasks == 2

\* the calls made on the service, in the order they are started
Tasks == 1..MaxTasks

None == [none |-> TRUE]

\* no awaited call has settled
NoCall == [settled |-> FALSE, threw |-> FALSE, message |-> "", value |-> None]

(***************************************************************************)
(* The state                                                               *)
(***************************************************************************)

VARIABLES
  useInkeepAgents,  \* GovernanceService.useInkeepAgents
  inkeepAvailable,  \* GovernanceService.inkeepAvailable
  isEnabled,        \* InkeepAgentsService.isEnabled
  ctor,             \* the constructor's un-awaited #checkInkeepAvailability
  op,               \* per task: the method called
  pc,               \* per task: where the call stands
  arg,              \* per task: the call's argument
  useInkeep,        \* per task: processInteraction's useInkeep
  inkeepSuccess,    \* per task: processInteraction's inkeepSuccess
  interaction,      \* per task: processInteraction's interaction
  legacy,           \* per task: the call of #detectViolations and its result
  result,           \* per task: how the awaited call settled
  ret               \* per task: the value the call returned

shared == <<useInkeepAgents, inkeepAvailable, isEnabled, ctor>>
locals == <<op, pc, arg, useInkeep, inkeepSuccess, interaction, legacy, result, ret>>
vars == <<useInkeepAgents, inkeepAvailable, isEnabled, ctor,
          op, pc, arg, useInkeep, inkeepSuccess, interaction, legacy, result, ret>>

\* The module-level getInstance() calls: both constructors have run, the
\* GovernanceService constructor has started its probe and not awaited it.
Init ==
  /\ \E use \in EnvValues, vite \in EnvValues :
       /\ useInkeepAgents = (use # "false" /\ vite # "false")
       /\ isEnabled = (use = "true" \/ vite = "true")
  /\ inkeepAvailable = FALSE
  /\ ctor = "probing"
  /\ op = [t \in Tasks |-> "none"]
  /\ pc = [t \in Tasks |-> "idle"]
  /\ arg = [t \in Tasks |-> None]
  /\ useInkeep = [t \in Tasks |-> FALSE]
  /\ inkeepSuccess = [t \in Tasks |-> FALSE]
  /\ interaction = [t \in Tasks |-> None]
  /\ legacy = [t \in Tasks |-> NotRun]
  /\ result = [t \in Tasks |-> NoCall]
  /\ ret = [t \in Tasks |-> None]

\* #checkInkeepAvailability, started by the constructor, resumes
CheckInkeepAvailability ==
  /\ ctor = "probing"
  /\ \E h \in HealthOutcomes : inkeepAvailable' = isAvailable(isEnabled, h)
  /\ ctor' = "done"
  /\ UNCHANGED <<useInkeepAgents, isEnabled>>
  /\ UNCHANGED locals

\* task t is the next call to start
CanStart(t) ==
  /\ pc[t] = "idle"
  /\ op[t] = "none"
  /\ \A u \in Tasks : u < t => op[u] # "none"

\* a processInteraction whose detector pushes into an array declared once,
\* outside the method, and never emptied: after the await the detector
\* returns what earlier calls pushed, then its own violations
CompleteSharedViolations(t, started, outcome) ==
  LET tried == TryInkeep(started, outcome)
      earlier == {u \in Tasks : legacy[u].ran}
      kept == IF earlier = {} THEN <<>>
              ELSE legacy[CHOOSE u \in earlier :
                            \A w \in earlier :
                              Len(legacy[w].violations) <= Len(legacy[u].violations)
                         ].violations
      violations == kept \o Detected(started.input, started.output)
      returned == Finalize(Merge(tried.interaction, violations, tried.inkeepSuccess))
  IN  /\ pc' = [pc EXCEPT ![t] = "done"]
      /\ inkeepSuccess' = [inkeepSuccess EXCEPT ![t] = tried.inkeepSuccess]
      /\ legacy' = [legacy EXCEPT ![t] = [ran |-> TRUE, violations |-> violations]]
      /\ interaction' = [interaction EXCEPT ![t] = returned]
      /\ ret' = [ret EXCEPT ![t] = returned]

\* processInteraction, from the settled remote call (or from the start, when
\* the remote tier is not used) to the return
Complete(t, started, outcome) ==
  LET tried == TryInkeep(started, outcome)
      after == AfterInkeep(tried.interaction, tried.inkeepSuccess)
  IN  IF tried.escaped
        THEN /\ pc' = [pc EXCEPT ![t] = "raised"]
             /\ inkeepSuccess' = [inkeepSuccess EXCEPT ![t] = tried.inkeepSuccess]
             /\ interaction' = [interaction EXCEPT ![t] = tried.interaction]
             /\ UNCHANGED <<legacy, ret>>
        ELSE /\ pc' = [pc EXCEPT ![t] = "done"]
             /\ inkeepSuccess' = [inkeepSuccess EXCEPT ![t] = tried.inkeepSuccess]
             /\ legacy' = [legacy EXCEPT ![t] = after.legacy]
             /\ interaction' = [interaction EXCEPT ![t] = after.interaction]
             /\ ret' = [ret EXCEPT ![t] = after.interaction]

\* processInteraction is called: it runs to the await of the remote call, or,
\* when the remote tier is not used, to its return
ProcessInteraction(t) ==
  /\ CanStart(t)
  /\ \E in \in Inputs :
       LET started == NewInteraction(in.input, in.output)
           use == useInkeepAgents /\ inkeepAvailable
       IN  /\ op' = [op EXCEPT ![t] = "processInteraction"]
           /\ arg' = [arg EXCEPT ![t] = in]
           /\ useInkeep' = [useInkeep EXCEPT ![t] = use]
           /\ IF use
                THEN /\ pc' = [pc EXCEPT ![t] = "awaitInkeep"]
                     /\ interaction' = [interaction EXCEPT ![t] = started]
                     /\ UNCHANGED <<inkeepSuccess, legacy, result, ret>>
                ELSE /\ legacy' = [legacy EXCEPT ![t] = AfterInkeep(started, FALSE).legacy]
                     /\ interaction' =
                          [interaction EXCEPT ![t] = AfterInkeep(started, FALSE).interaction]
                     /\ ret' = [ret EXCEPT ![t] = AfterInkeep(started, FALSE).interaction]
                     /\ pc' = [pc EXCEPT ![t] = "done"]
                     /\ UNCHANGED <<inkeepSuccess, result>>
  /\ UNCHANGED shared

\* a processInteraction that reads the flag and the cache again when the
\* remote call has settled, and drops the remote outcome if the tier is no
\* longer active
InkeepSettlesRereadsTier(t) ==
  /\ op[t] = "processInteraction"
  /\ pc[t] = "awaitInkeep"
  /\ \E reply \in Replies :
       LET outcome == Analysis(reply)
           use == useInkeepAgents /\ inkeepAvailable
       IN  /\ result' = [result EXCEPT ![t] = outcome]
           /\ useInkeep' = [useInkeep EXCEPT ![t] = use]
           /\ Complete(t, interaction[t],
                       IF use THEN outcome
                       ELSE Returns([violations |-> <<>>, agentActions |-> <<>>]))
  /\ UNCHANGED <<op, arg>>
  /\ UNCHANGED shared

\* a processInteraction that keeps its interaction in a field of the service,
\* which every call overwrites: after the await it goes on with the
\* interaction of the call that started last
InkeepSettlesSharedInteraction(t) ==
  /\ op[t] = "processInteraction"
  /\ pc[t] = "awaitInkeep"
  /\ \E reply \in Replies :
       LET outcome == Analysis(reply)
           last == CHOOSE u \in Tasks :
                     /\ op[u] = "processInteraction"
                     /\ \A w \in Tasks : op[w] = "processInteraction" => w <= u
       IN  /\ result' = [result EXCEPT ![t] = outcome]
           /\ Complete(t, interaction[last], outcome)
  /\ UNCHANGED <<op, arg, useInkeep>>
  /\ UNCHANGED shared

\* the awaited processAdvancedGovernance settles and processInteraction
\* runs to its return
InkeepSettles(t) ==
  /\ op[t] = "processInteraction"
  /\ pc[t] = "awaitInkeep"
  /\ \E reply \in Replies :
       LET outcome == Analysis(reply)
       IN  /\ result' = [result EXCEPT ![t] = outcome]
           /\ Complete(t, interaction[t], outcome)
  /\ UNCHANGED <<op, arg, useInkeep>>
  /\ UNCHANGED shared

\* getStatus is called: with the tier enabled it runs to the await of
\* isAvailable, otherwise to its return
GetStatus(t) ==
  /\ CanStart(t)
  /\ op' = [op EXCEPT ![t] = "getStatus"]
  /\ IF useInkeepAgents
       THEN /\ pc' = [pc EXCEPT ![t] = "awaitProbe"]
            /\ UNCHANGED ret
       ELSE /\ pc' = [pc EXCEPT ![t] = "done"]
            /\ ret' = [ret EXCEPT ![t] = StatusRecord(useInkeepAgents, inkeepAvailable)]
  /\ UNCHANGED <<arg, useInkeep, inkeepSuccess, interaction, legacy, result>>
  /\ UNCHANGED shared

\* a getStatus that reports the availability it had cached before the probe
GetStatusResumesCached(t) ==
  /\ op[t] = "getStatus"
  /\ pc[t] = "awaitProbe"
  /\ \E h \in HealthOutcomes :
       LET available == isAvailable(isEnabled, h)
       IN  /\ result' = [result EXCEPT ![t] = Returns(available)]
           /\ inkeepAvailable' = available
           /\ ret' = [ret EXCEPT ![t] = StatusRecord(useInkeepAgents, inkeepAvailable)]
  /\ pc' = [pc EXCEPT ![t] = "done"]
  /\ UNCHANGED <<op, arg, useInkeep, inkeepSuccess, interaction, legacy>>
  /\ UNCHANGED <<useInkeepAgents, isEnabled, ctor>>

\* a getStatus that reads the flag into a const before the await and builds
\* usingInkeep from it, and agentType from the field as it is afterwards
GetStatusResumesStaleFlag(t) ==
  /\ op[t] = "getStatus"
  /\ pc[t] = "awaitProbe"
  /\ \E h \in HealthOutcomes :
       LET available == isAvailable(isEnabled, h)
       IN  /\ result' = [result EXCEPT ![t] = Returns(available)]
           /\ inkeepAvailable' = available
           /\ ret' = [ret EXCEPT ![t] =
                        [StatusRecord(useInkeepAgents, available)
                           EXCEPT !.usingInkeep = TRUE]]
  /\ pc' = [pc EXCEPT ![t] = "done"]
  /\ UNCHANGED <<op, arg, useInkeep, inkeepSuccess, interaction, legacy>>
  /\ UNCHANGED <<useInkeepAgents, isEnabled, ctor>>

\* getStatus resumes from the await: it stores the probe's answer and returns
GetStatusResumes(t) ==
  /\ op[t] = "getStatus"
  /\ pc[t] = "awaitProbe"
  /\ \E h \in HealthOutcomes :
       LET available == isAvailable(isEnabled, h)
       IN  /\ result' = [result EXCEPT ![t] = Returns(available)]
           /\ inkeepAvailable' = available
           /\ ret' = [ret EXCEPT ![t] = StatusRecord(useInkeepAgents, available)]
  /\ pc' = [pc EXCEPT ![t] = "done"]
  /\ UNCHANGED <<op, arg, useInkeep, inkeepSuccess, interaction, legacy>>
  /\ UNCHANGED <<useInkeepAgents, isEnabled, ctor>>

\* a switchAgentType that starts the probe as the constructor does, without
\* awaiting it: the call returns before the probe has answered
SwitchAgentTypeNoAwait(t) ==
  /\ CanStart(t)
  /\ \E b \in BOOLEAN :
       /\ op' = [op EXCEPT ![t] = "switchAgentType"]
       /\ arg' = [arg EXCEPT ![t] = [useInkeep |-> b]]
       /\ useInkeepAgents' = b
       /\ pc' = [pc EXCEPT ![t] = "done"]
       /\ ctor' = IF b THEN "probing" ELSE ctor
  /\ UNCHANGED <<useInkeep, inkeepSuccess, interaction, legacy, result, ret>>
  /\ UNCHANGED <<inkeepAvailable, isEnabled>>

\* switchAgentType(b) is called: it sets the flag and, when turning the tier
\* on, runs to the await of #checkInkeepAvailability
SwitchAgentType(t) ==
  /\ CanStart(t)
  /\ \E b \in BOOLEAN :
       /\ op' = [op EXCEPT ![t] = "switchAgentType"]
       /\ arg' = [arg EXCEPT ![t] = [useInkeep |-> b]]
       /\ useInkeepAgents' = b
       /\ pc' = [pc EXCEPT ![t] = IF b THEN "awaitProbe" ELSE "done"]
  /\ UNCHANGED <<useInkeep, inkeepSuccess, interaction, legacy, result, ret>>
  /\ UNCHANGED <<inkeepAvailable, isEnabled, ctor>>

\* switchAgentType resumes from the await: #checkInkeepAvailability stores
\* the probe's answer
SwitchAgentTypeResumes(t) ==
  /\ op[t] = "switchAgentType"
  /\ pc[t] = "awaitProbe"
  /\ \E h \in HealthOutcomes :
       LET available == isAvailable(isEnabled, h)
       IN  /\ result' = [result EXCEPT ![t] = Returns(available)]
           /\ inkeepAvailable' = available
  /\ pc' = [pc EXCEPT ![t] = "done"]
  /\ UNCHANGED <<op, arg, useInkeep, inkeepSuccess, interaction, legacy, ret>>
  /\ UNCHANGED <<useInkeepAgents, isEnabled, ctor>>

\* a getGovernanceInsights that tests the flag alone, not the cached
\* availability
GetGovernanceInsightsWhenEnabled(t) ==
  /\ CanStart(t)
  /\ op' = [op EXCEPT ![t] = "getGovernanceInsights"]
  /\ IF useInkeepAgents
       THEN /\ pc' = [pc EXCEPT ![t] = "awaitInsights"]
            /\ UNCHANGED ret
       ELSE /\ pc' = [pc EXCEPT ![t] = "done"]
            /\ ret' = [ret EXCEPT ![t] = ZeroInsights]
  /\ UNCHANGED <<arg, useInkeep, inkeepSuccess, interaction, legacy, result>>
  /\ UNCHANGED shared

\* getGovernanceInsights is called: with the remote tier active it runs to
\* the await of the remote call, otherwise it returns the zero summary
GetGovernanceInsights(t) ==
  /\ CanStart(t)
  /\ op' = [op EXCEPT ![t] = "getGovernanceInsights"]
  /\ IF useInkeepAgents /\ inkeepAvailable
       THEN /\ pc' = [pc EXCEPT ![t] = "awaitInsights"]
            /\ UNCHANGED ret
       ELSE /\ pc' = [pc EXCEPT ![t] = "done"]
            /\ ret' = [ret EXCEPT ![t] = ZeroInsights]
  /\ UNCHANGED <<arg, useInkeep, inkeepSuccess, interaction, legacy, result>>
  /\ UNCHANGED shared

\* a getGovernanceInsights that marks the remote tier unavailable when the
\* remote call fails
InsightsSettleMarksUnavailable(t) ==
  /\ op[t] = "getGovernanceInsights"
  /\ pc[t] = "awaitInsights"
  /\ \E reply \in InsightReplies :
       LET outcome == getGovernanceInsightsRemote(reply)
       IN  /\ result' = [result EXCEPT ![t] = outcome]
           /\ pc' = [pc EXCEPT ![t] = IF outcome.threw THEN "raised" ELSE "done"]
           /\ ret' = [ret EXCEPT ![t] = IF outcome.threw THEN None ELSE outcome.value]
           /\ inkeepAvailable' = IF outcome.threw THEN FALSE ELSE inkeepAvailable
  /\ UNCHANGED <<op, arg, useInkeep, inkeepSuccess, interaction, legacy>>
  /\ UNCHANGED <<useInkeepAgents, isEnabled, ctor>>

\* the awaited remote getGovernanceInsights settles: its value is returned,
\* its exception is the caller's
InsightsSettle(t) ==
  /\ op[t] = "getGovernanceInsights"
  /\ pc[t] = "awaitInsights"
  /\ \E reply \in InsightReplies :
       LET outcome == getGovernanceInsightsRemote(reply)
       IN  /\ result' = [result EXCEPT ![t] = outcome]
           /\ pc' = [pc EXCEPT ![t] = IF outcome.threw THEN "raised" ELSE "done"]
           /\ ret' = [ret EXCEPT ![t] = IF outcome.threw THEN None ELSE outcome.value]
  /\ UNCHANGED <<op, arg, useInkeep, inkeepSuccess, interaction, legacy>>
  /\ UNCHANGED shared

Next ==
  \/ CheckInkeepAvailability
  \/ \E t \in Tasks : ProcessInteraction(t)
  \/ \E t \in Tasks : InkeepSettles(t)
  \/ \E t \in Tasks : GetStatus(t)
  \/ \E t \in Tasks : GetStatusResumes(t)
  \/ \E t \in Tasks : SwitchAgentType(t)
  \/ \E t \in Tasks : SwitchAgentTypeResumes(t)
  \/ \E t \in Tasks : GetGovernanceInsights(t)
  \/ \E t \in Tasks : InsightsSettle(t)

Spec == Init /\ [][Next]_vars

\* What the runtime guarantees to happen.  Every probe settles: its request
\* carries a timeout.  The fetch of processAdvancedGovernance and of
\* getGovernanceInsights is given no signal and no timeout, and nothing
\* races the await: whether it settles is the remote service's choice.
\* Callers need not call.
Fairness ==
  /\ WF_vars(CheckInkeepAvailability)
  /\ \A t \in Tasks : WF_vars(GetStatusResumes(t))
  /\ \A t \in Tasks : WF_vars(SwitchAgentTypeResumes(t))

SpecFair == Spec /\ Fairness

(***************************************************************************)
(* The orchestrator with the remote client replaced by a double.           *)
(* #parseBasic only ever produces violations of type compliance, and the   *)
(* local catalog none of that type, so the two tiers of the shipped        *)
(* service never report the same type.  Under SpecStub the remote call     *)
(* returns any result of the {violations, agentActions} shape with at most *)
(* one violation per type, as processInteraction reads it.                 *)
(***************************************************************************)

\* the violations the double can report
StubViolations ==
  { [type |-> "illegal_activity", description |-> "Reported by the remote tier",
     severity |-> 80, confidence |-> 85, reason |-> "Remote analysis"],
    [type |-> "gdpr", description |-> "Reported by the remote tier",
     severity |-> 50, confidence |-> 85, reason |-> "Remote analysis"],
    [type |-> "misinformation", description |-> "Reported by the remote tier",
     severity |-> 95, confidence |-> 85, reason |-> "Remote analysis"] }

\* the results the double can return: up to two violations of different types
StubResults ==
  { Returns([violations |-> vs,
             agentActions |-> <<[agentName |-> "InkeepGovernanceCoordinator",
                                 action |-> IF Len(vs) > 0 THEN "flag" ELSE "approve",
                                 details |-> "..."]>>]) :
      vs \in {<<>>} \cup {<<v>> : v \in StubViolations}
              \cup {<<v, w>> : <<v, w>> \in
                      {p \in StubViolations \X StubViolations : p[1].type # p[2].type}} }

\* the awaited call of the double settles and processInteraction runs to
\* its return
StubSettles(t) ==
  /\ op[t] = "processInteraction"
  /\ pc[t] = "awaitInkeep"
  /\ \E outcome \in StubResults \cup {Throws("stub failure")} :
       /\ result' = [result EXCEPT ![t] = outcome]
       /\ Complete(t, interaction[t], outcome)
  /\ UNCHANGED <<op, arg, useInkeep>>
  /\ UNCHANGED shared

NextStub ==
  \/ CheckInkeepAvailability
  \/ \E t \in Tasks : ProcessInteraction(t)
  \/ \E t \in Tasks : StubSettles(t)

SpecStub == Init /\ [][NextStub]_vars

(***************************************************************************)
(* InkeepAgentsService taken alone: its methods called directly on the     *)
(* exported singleton.  arg records what the network did with the call's   *)
(* request, result how the call settled.                                   *)
(***************************************************************************)

\* isAvailable made no request
NoRequest == [kind |-> "none", statusCode |-> 0]

\* isAvailable is called: a disabled client answers false without a
\* request, an enabled one sends the health request and waits
IsAvailable(t) ==
  /\ CanStart(t)
  /\ op' = [op EXCEPT ![t] = "isAvailable"]
  /\ IF isEnabled
       THEN /\ pc' = [pc EXCEPT ![t] = "awaitProbe"]
            /\ UNCHANGED <<arg, result>>
       ELSE /\ pc' = [pc EXCEPT ![t] = "done"]
            /\ arg' = [arg EXCEPT ![t] = NoRequest]
            /\ result' = [result EXCEPT ![t] = Returns(isAvailable(isEnabled, NoRequest))]
  /\ UNCHANGED <<useInkeep, inkeepSuccess, interaction, legacy, ret>>
  /\ UNCHANGED shared

\* the health request ends: a response, an error, the 5000 ms timeout, or
\* an exception inside the promise's executor
IsAvailableSettles(t) ==
  /\ op[t] = "isAvailable"
  /\ pc[t] = "awaitProbe"
  /\ \E h \in HealthOutcomes :
       /\ arg' = [arg EXCEPT ![t] = h]
       /\ result' = [result EXCEPT ![t] = Returns(isAvailable(isEnabled, h))]
  /\ pc' = [pc EXCEPT ![t] = "done"]
  /\ UNCHANGED <<op, useInkeep, inkeepSuccess, interaction, legacy, ret>>
  /\ UNCHANGED shared

\* the repository's two definitions of the client
Definitions == {"services/inkeepAgentsService.js", "unnamed/part_001"}

\* what the remote service answers to a direct analysis call: the response,
\* and the text of its body as response.text() reads it
Body(reply, text) == [reply |-> reply, text |-> text]

ClientReplies == {
  Body(FetchRejects, ""),
  Body(Response(503, "invalid", Undefined, Undefined), "Service Unavailable"),
  Body(Response(404, "object", Str("Policy violation: route blocked"), Undefined),
       "{\"content\":\"Policy violation: route blocked\"}"),
  Body(Response(200, "invalid", Undefined, Undefined), "<html>OK</html>"),
  Body(Response(200, "null", Undefined, Undefined), "null"),
  Body(Response(200, "object", Undefined, Undefined), "{\"choices\":[]}"),
  Body(Response(200, "object", Num(5), Undefined), "{\"content\":5}"),
  Body(Response(200, "object", Str("Status: APPROVED. No issues found."), Undefined),
       "{\"content\":\"Status: APPROVED. No issues found.\"}"),
  Body(Response(200, "object", Str("CRITICAL update: all checks passed"), Undefined),
       "{\"content\":\"CRITICAL update: all checks passed\"}"),
  Body(Response(201, "object", Str("Policy Violation found"), Undefined),
       "{\"content\":\"Policy Violation found\"}"),
  Body(Response(200, "object", Str(""), Str("request blocked, critical")),
       "{\"content\":\"\",\"message\":\"request blocked, critical\"}") }

\* the call under the definition it is made on
ClientAnalysis(source, body) ==
  IF source = "unnamed/part_001"
    THEN processAdvancedGovernancePart001(body.reply, body.text)
    ELSE processAdvancedGovernance(body.reply)

\* ClientAnalysis, evaluated once per definition and reply
ClientAnalysisOf ==
  {<<d, b, ClientAnalysis(d, b)>> : d \in Definitions, b \in ClientReplies}
ClientAnalysed(source, body) ==
  (CHOOSE p \in ClientAnalysisOf : p[1] = source /\ p[2] = body)[3]

\* processAdvancedGovernance is called on one of the definitions: it runs to
\* the await of fetch
ProcessAdvancedGovernance(t) ==
  /\ CanStart(t)
  /\ op' = [op EXCEPT ![t] = "processAdvancedGovernance"]
  /\ \E d \in Definitions : arg' = [arg EXCEPT ![t] = [source |-> d]]
  /\ pc' = [pc EXCEPT ![t] = "awaitFetch"]
  /\ UNCHANGED <<useInkeep, inkeepSuccess, interaction, legacy, result, ret>>
  /\ UNCHANGED shared

\* fetch settles and the call runs to its return or its throw
ProcessAdvancedGovernanceSettles(t) ==
  /\ op[t] = "processAdvancedGovernance"
  /\ pc[t] = "awaitFetch"
  /\ \E b \in ClientReplies :
       LET outcome == ClientAnalysed(arg[t].source, b)
       IN  /\ arg' = [arg EXCEPT ![t] = [source |-> arg[t].source,
                                         reply |-> b.reply, text |-> b.text]]
           /\ result' = [result EXCEPT ![t] = outcome]
           /\ pc' = [pc EXCEPT ![t] = IF outcome.threw THEN "raised" ELSE "done"]
           /\ ret' = [ret EXCEPT ![t] = IF outcome.threw THEN None ELSE outcome.value]
  /\ UNCHANGED <<op, useInkeep, inkeepSuccess, interaction, legacy>>
  /\ UNCHANGED shared

NextClient ==
  \/ \E t \in Tasks : IsAvailable(t)
  \/ \E t \in Tasks : IsAvailableSettles(t)
  \/ \E t \in Tasks : ProcessAdvancedGovernance(t)
  \/ \E t \in Tasks : ProcessAdvancedGovernanceSettles(t)

SpecClient == Init /\ [][NextClient]_vars

\* The health request carries a 5000 ms timeout whose handler resolves the
\* promise, so a pending isAvailable always settles.
SpecClientFair == SpecClient /\ \A t \in Tasks : WF_vars(IsAvailableSettles(t))

(***************************************************************************)
(* Properties                                                              *)
(***************************************************************************)

\* task t is a processInteraction call that has returned
Evaluated(t) == op[t] = "processInteraction" /\ pc[t] = "done"

\* the number of agent actions of an interaction with action = error
ErrorActions(i) ==
  Cardinality({k \in 1..Len(i.agentActions) : i.agentActions[k].action = "error"})

RECURSIVE MaxSeverity(_)
MaxSeverity(vs) ==
  IF Len(vs) = 1 THEN vs[1].severity
  ELSE LET m == MaxSeverity(Tail(vs))
       IN  IF vs[1].severity >= m THEN vs[1].severity ELSE m

\* the escalation rules, by the maximum severity of the violation set
Escalation(vs) ==
  IF vs = <<>> THEN <<"approved", "low">>
  ELSE IF MaxSeverity(vs) >= 90 THEN <<"blocked", "critical">>
  ELSE IF MaxSeverity(vs) >= 70 THEN <<"pending", "high">>
  ELSE <<"pending", "medium">>

\* C1: every returned evaluation has called the local detector on its own
\* input and output, whether or not the remote tier was used and whatever
\* the remote call did.
C1_LocalAlwaysRuns ==
  \A t \in Tasks :
    Evaluated(t) =>
      /\ legacy[t].ran
      /\ legacy[t].violations = Detected(arg[t].input, arg[t].output)

\* an evaluation whose remote call returned violations and whose local
\* detector still ran and found something
C1_Witness ==
  \E t \in Tasks :
    /\ Evaluated(t) /\ useInkeep[t] /\ inkeepSuccess[t]
    /\ legacy[t].ran /\ Len(legacy[t].violations) > 0

\* C2: a returned interaction is blocked exactly when one of its violations
\* has severity >= 9, and a blocked one holds a violation with a reason.
C2_BlockedIff ==
  \A t \in Tasks :
    Evaluated(t) =>
      LET vs == ret[t].violations
      IN  /\ (ret[t].status = "blocked") <=> (\E i \in 1..Len(vs) : vs[i].severity >= 90)
          /\ (ret[t].status = "blocked") => (\E i \in 1..Len(vs) : vs[i].reason # "")

\* a blocked interaction whose highest severity is exactly 9
C2_Witness ==
  \E t \in Tasks :
    Evaluated(t) /\ ret[t].status = "blocked" /\ MaxSeverity(ret[t].violations) = 90

\* C3: a returned interaction is approved exactly when it has no violation,
\* also when it records a remote error.
C3_ApprovedIff ==
  \A t \in Tasks :
    Evaluated(t) => ((ret[t].status = "approved") <=> (ret[t].violations = <<>>))

\* an approved interaction that records a remote error
C3_Witness ==
  \E t \in Tasks :
    Evaluated(t) /\ ret[t].status = "approved" /\ ErrorActions(ret[t]) = 1

\* C4: the status and severity of a returned interaction are the escalation
\* rules' value for its violations; the initial pending/low is never returned.
C4_Escalation ==
  \A t \in Tasks :
    Evaluated(t) =>
      /\ <<ret[t].status, ret[t].severity>> = Escalation(ret[t].violations)
      /\ <<ret[t].status, ret[t].severity>> # <<"pending", "low">>

\* one interaction returned pending/high, and another returned blocked that
\* holds, beside a violation at or above 9, one below 9
C4_Witness ==
  \E t \in Tasks :
    /\ Evaluated(t) /\ ret[t].status = "pending" /\ ret[t].severity = "high"
    /\ \E u \in Tasks :
         /\ Evaluated(u) /\ ret[u].status = "blocked"
         /\ Len(ret[u].violations) >= 2
         /\ \E i \in 1..Len(ret[u].violations) : ret[u].violations[i].severity < 90

\* C5: a processInteraction call made while the tier is disabled returns at
\* once, with no remote call, the local detector's violations in their
\* order, and the status and severity the escalation rules give them.
C5_Backstop ==
  [][\A t \in Tasks :
       (CanStart(t) /\ op'[t] = "processInteraction" /\ ~useInkeepAgents) =>
         /\ pc'[t] = "done"
         /\ ~result'[t].settled
         /\ ret'[t].violations = Detected(arg'[t].input, arg'[t].output)
         /\ <<ret'[t].status, ret'[t].severity>>
              = Escalation(Detected(arg'[t].input, arg'[t].output))]_vars

\* an evaluation made with the tier disabled from the start, whose local
\* detector found two violations
C5_Witness ==
  \E t \in Tasks :
    /\ Evaluated(t) /\ ~useInkeep[t] /\ ~useInkeepAgents
    /\ \A u \in Tasks : op[u] # "switchAgentType"
    /\ Len(ret[t].violations) = 2

\* C6: no processInteraction call ends with an exception; one whose remote
\* call threw has returned a finalized interaction that records the failure
\* as an agent action.
C6_NeverRaises ==
  \A t \in Tasks :
    op[t] = "processInteraction" =>
      /\ pc[t] # "raised"
      /\ (pc[t] = "done" /\ result[t].threw) =>
           /\ <<ret[t].status, ret[t].severity>> = Escalation(ret[t].violations)
           /\ \E k \in 1..Len(ret[t].agentActions) :
                ret[t].agentActions[k] = ErrorAction(result[t].message)

\* an evaluation that returned after the remote answer could not be read
C6_Witness ==
  \E t \in Tasks :
    /\ Evaluated(t) /\ result[t].threw
    /\ result[t].message = "Cannot read properties of null (reading 'content')"

\* C7 as stated: when every remote call made so far has failed, every
\* returned evaluation holds exactly one error action.
C7_AlwaysOneError ==
  (\A u \in Tasks :
     (op[u] = "processInteraction" /\ result[u].settled) => result[u].threw)
  => \A t \in Tasks : Evaluated(t) => ErrorActions(ret[t]) = 1

\* C7, amended: a returned evaluation holds exactly one error action when
\* it attempted the remote tier and the call failed, and none otherwise.
C7_OneErrorPerFailedAttempt ==
  \A t \in Tasks :
    Evaluated(t) =>
      /\ ErrorActions(ret[t]) = IF useInkeep[t] /\ result[t].threw THEN 1 ELSE 0
      /\ ~useInkeep[t] => ~result[t].settled
      /\ useInkeep[t] => result[t].settled

\* an evaluation that attempted the remote tier, whose call failed
C7_Witness ==
  \E t \in Tasks :
    Evaluated(t) /\ useInkeep[t] /\ result[t].threw /\ ErrorActions(ret[t]) = 1

\* C8: an evaluation whose remote call failed returns the violations, status
\* and severity that an evaluation of the same input and output returns
\* without the remote tier: those of the local detector alone.
C8_FailureKeepsVerdict ==
  \A t \in Tasks :
    (Evaluated(t) /\ useInkeep[t] /\ result[t].threw) =>
      /\ ret[t].violations = Detected(arg[t].input, arg[t].output)
      /\ \A u \in Tasks :
           (Evaluated(u) /\ ~useInkeep[u] /\ arg[u] = arg[t]) =>
             /\ ret[u].violations = ret[t].violations
             /\ ret[u].status = ret[t].status
             /\ ret[u].severity = ret[t].severity

\* the same input evaluated once with a failed remote call and once without
\* the remote tier, both approved
C8_Witness ==
  \E t \in Tasks, u \in Tasks :
    /\ Evaluated(t) /\ useInkeep[t] /\ result[t].threw
    /\ Evaluated(u) /\ ~useInkeep[u] /\ arg[u] = arg[t]
    /\ ret[t].status = "approved"

\* the entries of the sequence vs that have type ty
OfType(vs, ty) == SelectSeq(vs, LAMBDA v : v.type = ty)

StatusReturned(t) == op[t] = "getStatus" /\ pc[t] = "done"

\* C10 as stated: every returned getStatus call has made a probe and reports
\* its answer, with activeTier = remote exactly when enabled and available.
C10_AlwaysProbes ==
  \A t \in Tasks :
    StatusReturned(t) =>
      /\ result[t].settled
      /\ ret[t].inkeepAvailable = result[t].value
      /\ (ret[t].agentType = "inkeep") <=> (ret[t].usingInkeep /\ ret[t].inkeepAvailable)

\* C10, amended: a getStatus call made while the tier is enabled probes and
\* reports the probe's answer; one made while it is disabled makes no probe
\* and reports the cached availability.  Both report the flag as it is at
\* the return, and the inkeep tier exactly when the reported flag and the
\* reported availability are both true.
C10_ProbesWhenEnabled ==
  /\ [](\A t \in Tasks :
          StatusReturned(t) =>
            /\ result[t].settled => ret[t].inkeepAvailable = result[t].value
            /\ (ret[t].agentType = "inkeep")
                 <=> (ret[t].usingInkeep /\ ret[t].inkeepAvailable))
  /\ [][\A t \in Tasks :
          /\ (CanStart(t) /\ op'[t] = "getStatus") =>
                IF useInkeepAgents
                  THEN pc'[t] = "awaitProbe"
                  ELSE /\ pc'[t] = "done"
                       /\ ~result'[t].settled
                       /\ ret'[t].inkeepAvailable = inkeepAvailable
          /\ (op[t] = "getStatus" /\ pc[t] = "awaitProbe" /\ pc'[t] = "done") =>
                result'[t].settled
          /\ (op'[t] = "getStatus" /\ pc[t] # "done" /\ pc'[t] = "done") =>
                ret'[t].usingInkeep = useInkeepAgents']_vars

\* a getStatus call that found the cache false, probed, and reports the
\* probe's answer true and the inkeep tier
C10_Witness ==
  \E t \in Tasks :
    /\ StatusReturned(t) /\ result[t].settled /\ result[t].value
    /\ ret[t].inkeepAvailable /\ ret[t].agentType = "inkeep"
    /\ ctor = "probing"

\* task t is a switchAgentType call
Switching(t) == op[t] = "switchAgentType"

\* C11: switchAgentType(b) sets the flag to b in its first step.  With b
\* true the call then waits for a probe and completes only in the step that
\* stores the probe's answer in inkeepAvailable; with b false it completes
\* in the first step, with no probe and inkeepAvailable as it was.
C11_SwitchSetsFlagAndProbes ==
  /\ [](\A t \in Tasks :
          (Switching(t) /\ pc[t] = "done") => (result[t].settled <=> arg[t].useInkeep))
  /\ [][\A t \in Tasks :
          /\ (CanStart(t) /\ op'[t] = "switchAgentType") =>
               /\ useInkeepAgents' = arg'[t].useInkeep
               /\ inkeepAvailable' = inkeepAvailable
               /\ ~result'[t].settled
               /\ pc'[t] = IF arg'[t].useInkeep THEN "awaitProbe" ELSE "done"
          /\ (Switching(t) /\ pc[t] = "awaitProbe" /\ pc'[t] # "awaitProbe") =>
               /\ pc'[t] = "done"
               /\ result'[t].settled /\ ~result'[t].threw
               /\ inkeepAvailable' = result'[t].value]_vars

\* a switchAgentType(true) that found the cache false and completed with the
\* probe's answer true stored, beside a switchAgentType(false) that completed
\* without a probe
C11_Witness ==
  \E t \in Tasks, u \in Tasks :
    /\ Switching(t) /\ pc[t] = "done" /\ arg[t].useInkeep
    /\ result[t].settled /\ result[t].value /\ inkeepAvailable
    /\ ctor = "probing"
    /\ Switching(u) /\ pc[u] = "done" /\ ~arg[u].useInkeep /\ ~result[u].settled

\* task t is a getGovernanceInsights call
Insights(t) == op[t] = "getGovernanceInsights"

\* C12: a getGovernanceInsights call makes the remote call exactly when, at
\* the call, the flag and the cached availability are both true, and then
\* returns what the remote call returns; otherwise it returns the zero
\* summary at once with no remote call.  No step of the call changes the
\* flag or the cached availability.
C12_InsightsDelegateIffActive ==
  /\ [](\A t \in Tasks :
          (Insights(t) /\ pc[t] = "done") =>
            ret[t] = IF result[t].settled THEN result[t].value ELSE ZeroInsights)
  /\ [][\A t \in Tasks :
          /\ (CanStart(t) /\ op'[t] = "getGovernanceInsights") =>
               /\ useInkeepAgents' = useInkeepAgents
               /\ inkeepAvailable' = inkeepAvailable
               /\ ~result'[t].settled
               /\ IF useInkeepAgents /\ inkeepAvailable
                    THEN pc'[t] = "awaitInsights"
                    ELSE pc'[t] = "done" /\ ret'[t] = ZeroInsights
          /\ (Insights(t) /\ pc[t] = "awaitInsights" /\ pc'[t] # "awaitInsights") =>
               /\ useInkeepAgents' = useInkeepAgents
               /\ inkeepAvailable' = inkeepAvailable
               /\ result'[t].settled
               /\ pc'[t] = IF result'[t].threw THEN "raised" ELSE "done"]_vars

\* with the flag true throughout, one call made before the constructor's
\* probe answered returned the zero summary without a remote call, and a
\* later one delegated and returned the remote value
C12_Witness ==
  \E t \in Tasks, u \in Tasks :
    /\ u < t
    /\ Insights(u) /\ pc[u] = "done" /\ ~result[u].settled /\ ret[u] = ZeroInsights
    /\ Insights(t) /\ pc[t] = "done" /\ result[t].settled /\ ret[t] = result[t].value
    /\ useInkeepAgents /\ inkeepAvailable

\* task t is a direct isAvailable call
Probing(t) == op[t] = "isAvailable"

\* C13: an isAvailable call never ends with an exception and resolves to a
\* boolean: true exactly when the client is enabled and the health request
\* got a response with a status in 200..299, false for a request error, a
\* malformed endpoint and a timeout; and a pending call always resolves.
C13_ProbeResolvesBoolean ==
  /\ [](\A t \in Tasks :
          Probing(t) =>
            /\ pc[t] \in {"awaitProbe", "done"}
            /\ pc[t] = "done" =>
                 /\ result[t].settled /\ ~result[t].threw
                 /\ result[t].value \in BOOLEAN
                 /\ result[t].value <=>
                      /\ isEnabled
                      /\ arg[t].kind = "response"
                      /\ arg[t].statusCode \in 200..299
                 /\ arg[t].kind \in {"error", "badurl", "timeout"} => ~result[t].value)
  /\ \A t \in Tasks : (Probing(t) /\ pc[t] = "awaitProbe") ~> (pc[t] = "done")

\* two probes resolved: one true on a 204, one false on the timeout
C13_Witness ==
  \E t \in Tasks, u \in Tasks :
    /\ Probing(t) /\ pc[t] = "done" /\ arg[t].statusCode = 204 /\ result[t].value
    /\ Probing(u) /\ pc[u] = "done" /\ arg[u].kind = "timeout" /\ ~result[u].value

\* C14 as stated: every processInteraction call that waits for the remote
\* call eventually has run the local detector and returned.
C14_RemoteCallBounded ==
  \A t \in Tasks :
    (op[t] = "processInteraction" /\ pc[t] = "awaitInkeep")
      ~> (pc[t] = "done" /\ legacy[t].ran)

\* task t is a direct processAdvancedGovernance call that has settled
Analysed(t) == op[t] = "processAdvancedGovernance" /\ pc[t] \in {"done", "raised"}

\* the string s holds the lower-case word w, in any letter case
Holds(s, w) ==
  \E i \in 1..(Len(s) - Len(w) + 1) : toLowerCase(SubSeq(s, i, i + Len(w) - 1)) = w

\* a field of the body is a string or is absent
TextOrAbsent(x) == x.t \in {"string", "undefined"}

\* the free text of a body: its content, or else its message, or else empty
FreeText(reply) ==
  IF reply.content.t = "string" /\ reply.content.v # "" THEN reply.content.v
  ELSE IF reply.message.t = "string" /\ reply.message.v # "" THEN reply.message.v
  ELSE ""

\* per reply: whether its free text holds a violation/blocked keyword, and
\* whether it holds the critical keyword
KeywordsOf ==
  {<<b, Holds(FreeText(b.reply), "violation") \/ Holds(FreeText(b.reply), "blocked"),
        Holds(FreeText(b.reply), "critical")>> : b \in ClientReplies}
Flagged(reply, text) ==
  (CHOOSE p \in KeywordsOf : p[1] = Body(reply, text))[2]
Critical(reply, text) ==
  (CHOOSE p \in KeywordsOf : p[1] = Body(reply, text))[3]

\* C15: a processAdvancedGovernance call answered with a success status and
\* a JSON object whose content and message are text or absent returns, with
\* one violation when the free text holds a violation/blocked keyword and
\* none otherwise (none for the critical keyword alone), that violation with
\* severity 9 if the text also holds the critical keyword and 7 if not, and
\* confidence 0.85; and with exactly one agent action, the coordinator's.
C15_OneViolationIffKeyword ==
  \A t \in Tasks :
    ( /\ Analysed(t)
      /\ arg[t].reply.kind = "response"
      /\ arg[t].reply.status \in 200..299
      /\ arg[t].reply.json = "object"
      /\ TextOrAbsent(arg[t].reply.content) /\ TextOrAbsent(arg[t].reply.message) )
    => /\ pc[t] = "done"
       /\ Len(ret[t].violations) = IF Flagged(arg[t].reply, arg[t].text) THEN 1 ELSE 0
       /\ \A i \in 1..Len(ret[t].violations) :
            /\ ret[t].violations[i].severity
                 = IF Critical(arg[t].reply, arg[t].text) THEN 90 ELSE 70
            /\ ret[t].violations[i].confidence = 85
       /\ Len(ret[t].agentActions) = 1
       /\ ret[t].agentActions[1].agentName = "InkeepGovernanceCoordinator"

\* one call whose answer held the critical keyword alone returned no
\* violation and the coordinator's action; another, whose answer held
\* blocked and critical in its message, returned one violation of severity 9
C15_Witness ==
  \E t \in Tasks, u \in Tasks :
    /\ Analysed(t) /\ pc[t] = "done"
    /\ FreeText(arg[t].reply) = "CRITICAL update: all checks passed"
    /\ ret[t].violations = <<>> /\ Len(ret[t].agentActions) = 1
    /\ Analysed(u) /\ pc[u] = "done"
    /\ FreeText(arg[u].reply) = "request blocked, critical"
    /\ Len(ret[u].violations) = 1 /\ ret[u].violations[1].severity = 90

\* the string s holds the string w
Contains(s, w) ==
  \E i \in 1..(Len(s) - Len(w) + 1) : SubSeq(s, i, i + Len(w) - 1) = w

\* C16 as stated: a processAdvancedGovernance call answered with a status
\* outside 200..299 returns no result; it throws an error whose message
\* holds the status and the text of the response's body.
C16_ErrorCarriesStatusAndBody ==
  \A t \in Tasks :
    ( /\ Analysed(t)
      /\ arg[t].reply.kind = "response"
      /\ arg[t].reply.status \notin 200..299 )
    => /\ pc[t] = "raised"
       /\ result[t].threw
       /\ Contains(result[t].message, ToString(arg[t].reply.status))
       /\ Contains(result[t].message, arg[t].text)

\* what task t holds of its own
Local(t) ==
  <<op[t], pc[t], arg[t], useInkeep[t], inkeepSuccess[t], interaction[t],
    legacy[t], result[t], ret[t]>>

Alone(t) ==
  LET started == NewInteraction(arg[t].input, arg[t].output)
      tried == IF useInkeep[t]
                 THEN TryInkeep(started, result[t])
                 ELSE [interaction |-> started, inkeepSuccess |-> FALSE, escaped |-> FALSE]
  IN  AfterInkeep(tried.interaction, tried.inkeepSuccess).interaction

\* C18: however processInteraction calls interleave at the await of the
\* remote call, each returned interaction is the one its call returns when
\* it runs alone: it holds the call's own input and output, and only the
\* violations and agent actions of its own remote outcome and of the local
\* detector on its own text.  A step of one call changes nothing another
\* call holds.
C18_EvaluationsIndependent ==
  /\ [](\A t \in Tasks :
          Evaluated(t) =>
            /\ ret[t] = Alone(t)
            /\ ret[t].input = arg[t].input /\ ret[t].output = arg[t].output
            /\ \A i \in 1..Len(ret[t].violations) :
                 \/ /\ useInkeep[t] /\ ~result[t].threw
                    /\ \E k \in 1..Len(result[t].value.violations) :
                         ret[t].violations[i] = result[t].value.violations[k]
                 \/ \E k \in 1..Len(legacy[t].violations) :
                      ret[t].violations[i] = legacy[t].violations[k])
  /\ [][\A t \in Tasks :
          (op'[t] = "processInteraction" /\ Local(t)' # Local(t)) =>
            \A u \in Tasks \ {t} : Local(u)' = Local(u)]_vars

\* a call returned, with a remote result of its own and the violations of
\* its own text, while a call started before it, on another text, still
\* waits for its remote call
C18_Witness ==
  \E t \in Tasks, u \in Tasks :
    /\ u < t
    /\ op[u] = "processInteraction" /\ pc[u] = "awaitInkeep"
    /\ Evaluated(t) /\ useInkeep[t] /\ inkeepSuccess[t]
    /\ arg[t] # arg[u]
    /\ Len(ret[t].violations) = 2

\* task t is a processInteraction call
Evaluating(t) == op[t] = "processInteraction"

\* C19: processInteraction sets useInkeep in its first step, to the flag and
\* the cached availability as they are then, and no later step of any call
\* changes it: the call waits for the remote call exactly when useInkeep is
\* true and then settles with the remote outcome, whatever the flag and the
\* cache have become.  No step of the call waits for a probe or changes the
\* flag or the cached availability.
C19_TierDecidedOnceFromCache ==
  /\ [](\A t \in Tasks :
          Evaluating(t) =>
            /\ pc[t] \in {"awaitInkeep", "done"}
            /\ pc[t] = "awaitInkeep" => useInkeep[t]
            /\ pc[t] = "done" => (result[t].settled <=> useInkeep[t]))
  /\ [][\A t \in Tasks :
          /\ (CanStart(t) /\ op'[t] = "processInteraction") =>
               /\ useInkeep'[t] = (useInkeepAgents /\ inkeepAvailable)
               /\ pc'[t] = IF useInkeep'[t] THEN "awaitInkeep" ELSE "done"
          /\ Evaluating(t) => useInkeep'[t] = useInkeep[t]
          /\ (op'[t] = "processInteraction" /\ Local(t)' # Local(t)) =>
               /\ useInkeepAgents' = useInkeepAgents
               /\ inkeepAvailable' = inkeepAvailable]_vars

\* an evaluation decided for the remote tier, and returned with the remote
\* outcome, although a switchAgentType(false) started after it has turned
\* the flag off
C19_Witness ==
  \E t \in Tasks, u \in Tasks :
    /\ t < u
    /\ Evaluated(t) /\ useInkeep[t] /\ result[t].settled /\ inkeepSuccess[t]
    /\ Switching(u) /\ pc[u] = "done" /\ ~arg[u].useInkeep
    /\ ~useInkeepAgents

\* the step completes the constructor's probe
ConstructionProbeEnds == ctor = "probing" /\ ctor' = "done"

\* the step completes a probe that task t waited for, storing its answer
ProbeEnds(t) ==
  /\ pc[t] = "awaitProbe" /\ pc'[t] = "done"
  /\ result'[t].settled /\ inkeepAvailable' = result'[t].value

\* C20 as stated: inkeepAvailable changes only in the step that completes
\* the constructor's probe or the probe of a switchAgentType(true).
C20_OnlyConstructionOrSwitch ==
  [][inkeepAvailable' # inkeepAvailable =>
       \/ ConstructionProbeEnds
       \/ \E t \in Tasks : Switching(t) /\ arg[t].useInkeep /\ ProbeEnds(t)]_vars

\* C20, amended: inkeepAvailable changes only in the step that completes a
\* probe and stores its answer: the constructor's, that of a
\* switchAgentType(true), or that of a getStatus.  A call issues a probe
\* exactly when it is switchAgentType(true) or a getStatus made while the
\* flag is true; processInteraction, getGovernanceInsights,
\* switchAgentType(false) and a getStatus made while the flag is false
\* issue none.
C20_OnlyProbesWrite ==
  [][/\ inkeepAvailable' # inkeepAvailable =>
          \/ ConstructionProbeEnds
          \/ \E t \in Tasks :
               /\ (Switching(t) /\ arg[t].useInkeep) \/ op[t] = "getStatus"
               /\ ProbeEnds(t)
     /\ \A t \in Tasks :
          CanStart(t) =>
            (pc'[t] = "awaitProbe" <=>
               \/ op'[t] = "switchAgentType" /\ arg'[t].useInkeep
               \/ op'[t] = "getStatus" /\ useInkeepAgents)]_vars

\* with the constructor's probe still unanswered and no switchAgentType
\* called, a getStatus stored the answer true, and a getGovernanceInsights
\* made after it found the remote tier active
C20_Witness ==
  \E t \in Tasks, u \in Tasks :
    /\ t < u
    /\ ctor = "probing" /\ \A w \in Tasks : ~Switching(w)
    /\ op[t] = "getStatus" /\ pc[t] = "done" /\ result[t].settled /\ inkeepAvailable
    /\ Insights(u) /\ pc[u] = "awaitInsights"

\* task t has waited for a probe and stored its answer
ProbeStored(t) == op[t] \in {"getStatus", "switchAgentType"} /\ result[t].settled

\* C21 as stated: no probe's answer is stored after the answer of a probe
\* that started later.  The constructor's probe starts first, and the calls
\* start in the order of Tasks.
C21_NoOlderProbeOverwrites ==
  [][/\ ConstructionProbeEnds => \A u \in Tasks : ~ProbeStored(u)
     /\ \A t \in Tasks :
          ProbeEnds(t) => \A u \in Tasks : u > t => ~ProbeStored(u)]_vars
\* the remote call of task t succeeded and its result holds no violation
CleanRemote(t) ==
  /\ Evaluated(t) /\ useInkeep[t]
  /\ result[t].settled /\ ~result[t].threw
  /\ result[t].value.violations = <<>>

\* the agent names of the sequence of agent actions as
AgentNames(as) == {as[k].agentName : k \in 1..Len(as)}

\* C22: when the remote call succeeds with zero violations, the returned
\* interaction holds no error action and none of the remote result's agent
\* actions, inkeepSuccess stays false, and the local detector runs: the
\* returned violations are the local detector's.
C22_CleanRemoteAddsNothing ==
  \A t \in Tasks :
    CleanRemote(t) =>
      /\ ~inkeepSuccess[t]
      /\ ErrorActions(ret[t]) = 0
      /\ \A k \in 1..Len(result[t].value.agentActions) :
           \A j \in 1..Len(ret[t].agentActions) :
             ret[t].agentActions[j] # result[t].value.agentActions[k]
      /\ AgentNames(ret[t].agentActions) \subseteq {"LegacyPolicyEnforcer"}
      /\ legacy[t].ran
      /\ ret[t].violations = legacy[t].violations

\* two such evaluations: the remote result held an approve action and no
\* violation; the local detector found a violation in one and none in the other
C22_Witness ==
  \E t, u \in Tasks :
    /\ CleanRemote(t) /\ CleanRemote(u)
    /\ Len(result[t].value.agentActions) > 0
    /\ ret[t].violations # <<>>
    /\ ret[u].violations = <<>> /\ ret[u].agentActions = <<>>

\* the remote call of task t succeeded and its result holds a violation
RemoteFound(t) ==
  /\ Evaluated(t) /\ useInkeep[t]
  /\ result[t].settled /\ ~result[t].threw
  /\ Len(result[t].value.violations) > 0

\* the sequence p is the beginning of the sequence q
IsPrefix(p, q) == Len(p) <= Len(q) /\ SubSeq(q, 1, Len(p)) = p

LegacyNames == {"LegacyPolicyEnforcer", "LegacyPolicyEnforcer (Verification)"}

\* the agent actions of the interaction i that the legacy pass recorded
LegacyActions(i) == SelectSeq(i.agentActions, LAMBDA a : a.agentName \in LegacyNames)

C25_VerificationNameIffRemoteFound ==
  \A t \in Tasks :
    Evaluated(t) =>
      \A k \in 1..Len(LegacyActions(ret[t])) :
        LegacyActions(ret[t])[k].agentName =
          IF RemoteFound(t) THEN "LegacyPolicyEnforcer (Verification)"
          ELSE "LegacyPolicyEnforcer"

\* two evaluations with a legacy-pass action: one after a remote result with
\* a violation, the other after a remote success with zero violations
C25_Witness ==
  \E t, u \in Tasks :
    /\ RemoteFound(t)
    /\ AgentNames(LegacyActions(ret[t])) = {"LegacyPolicyEnforcer (Verification)"}
    /\ CleanRemote(u)
    /\ AgentNames(LegacyActions(ret[u])) = {"LegacyPolicyEnforcer"}

\* two more: one after a remote error, the other without a remote call
C25_WitnessErrorAndLocal ==
  \E t, u \in Tasks :
    /\ Evaluated(t) /\ useInkeep[t] /\ result[t].threw
    /\ AgentNames(LegacyActions(ret[t])) = {"LegacyPolicyEnforcer"}
    /\ Evaluated(u) /\ ~useInkeep[u]
    /\ AgentNames(LegacyActions(ret[u])) = {"LegacyPolicyEnforcer"}

\* the violations the remote call of task t returned
RemoteViolations(t) ==
  IF useInkeep[t] /\ result[t].settled /\ ~result[t].threw
    THEN result[t].value.violations ELSE <<>>

\* In the interaction task t returned, every agent action the remote tier
\* contributed stands before the legacy-pass action, and every violation of
\* the remote result before every violation the local detector added.
CausalOrder(t) ==
  LET actions == ret[t].agentActions
      violations == ret[t].violations
      remote == {RemoteViolations(t)[k] : k \in 1..Len(RemoteViolations(t))}
  IN  /\ \A j, k \in 1..Len(actions) :
           (actions[j].agentName \notin LegacyNames /\ actions[k].agentName \in LegacyNames)
             => j < k
      /\ \A j, k \in 1..Len(violations) :
           (violations[j] \in remote /\ violations[k] \notin remote) => j < k

\* C26: the agent actions and the violations of an evaluation only grow at
\* the end: every step keeps what the interaction held, in its order, as the
\* beginning of what it holds afterwards; and in the returned interaction the
\* remote tier's actions (the returned ones or the error action) precede the
\* legacy-pass action, and the remote violations precede the local ones.
C26_AppendOnlyCausalOrder ==
  [][\A t \in Tasks :
       /\ op[t] = "processInteraction" =>
            /\ IsPrefix(interaction[t].agentActions, interaction'[t].agentActions)
            /\ IsPrefix(interaction[t].violations, interaction'[t].violations)
       /\ Evaluated(t)' => CausalOrder(t)']_vars

\* one evaluation returned the error action followed by the legacy-pass
\* action, another a remote violation and action followed by two local
\* violations and the legacy-pass action
C26_Witness ==
  \E t, u \in Tasks :
    /\ Evaluated(t) /\ useInkeep[t] /\ result[t].threw
    /\ Len(ret[t].agentActions) = 2
    /\ ret[t].agentActions[1].action = "error"
    /\ ret[t].agentActions[2].agentName \in LegacyNames
    /\ RemoteFound(u)
    /\ Len(ret[u].violations) = 3 /\ Len(legacy[u].violations) = 2
    /\ ret[u].violations[1] = result[u].value.violations[1]
    /\ Len(ret[u].agentActions) = 2
    /\ ret[u].agentActions[2].agentName \in LegacyNames

\* which pattern lists match the text of each input, evaluated once
MatchesOn ==
  { <<in, LET text == toLowerCase(in.input \o " " \o in.output)
          IN  [wifi |-> AnyMatches(wifiHackingPatterns, text),
               hacking |-> AnyMatches(hackingPatterns, text),
               violence |-> AnyMatches(violencePatterns, text),
               pii |-> AnyMatches(piiPatterns, text),
               wifiCount |-> Cardinality({i \in 1..Len(wifiHackingPatterns) :
                                            test(wifiHackingPatterns[i], text)})]>> :
      in \in Inputs }
Matches(in) == (CHOOSE p \in MatchesOn : p[1] = in)[2]

\* C27: the local detector returns at most one violation per type; a text
\* that matches a WiFi pattern gets one illegal_activity violation of
\* severity 9.0, whether or not it matches a general hacking pattern too; a
\* text that matches general hacking patterns only gets one of severity 9.5;
\* a text that matches neither gets none.
C27_OneIllegalActivityWifiFirst ==
  \A t \in Tasks :
    legacy[t].ran =>
      LET m == Matches(arg[t])
          found == legacy[t].violations
          illegal == OfType(found, "illegal_activity")
      IN  /\ \A ty \in TypesOf(found) : Len(OfType(found, ty)) = 1
          /\ m.wifi => (Len(illegal) = 1 /\ illegal[1].severity = 90)
          /\ (~m.wifi /\ m.hacking) => (Len(illegal) = 1 /\ illegal[1].severity = 95)
          /\ (~m.wifi /\ ~m.hacking) => illegal = <<>>

\* the detector has run on a text that matches two WiFi patterns and a
\* general hacking pattern, and on one that matches a general hacking
\* pattern only
C27_Witness ==
  \E t, u \in Tasks :
    /\ legacy[t].ran /\ Matches(arg[t]).wifiCount >= 2 /\ Matches(arg[t]).hacking
    /\ OfType(legacy[t].violations, "illegal_activity") = <<WifiViolation>>
    /\ legacy[u].ran /\ ~Matches(arg[u]).wifi /\ Matches(arg[u]).hacking
    /\ OfType(legacy[u].violations, "illegal_activity") = <<HackingViolation>>

\* the types of the sequence of violations vs, in its order
TypeSeq(vs) == [k \in 1..Len(vs) |-> vs[k].type]

\* the catalog's order of categories
CatalogOrder == <<"illegal_activity", "violence", "gdpr">>

\* C28: the local detector returns a violence violation exactly when a
\* violence pattern matches and a gdpr violation exactly when a
\* personal-information pattern matches, whatever else matches; its
\* violations stand in the order illegal_activity, violence, gdpr; a text
\* that matches only personal-information patterns gets one violation, of
\* severity 8.5, and an evaluation decided by it alone is pending/high.
C28_CategoriesIndependent ==
  \A t \in Tasks :
    legacy[t].ran =>
      LET m == Matches(arg[t])
          found == legacy[t].violations
      IN  /\ OfType(found, "violence") = IF m.violence THEN <<ViolenceViolation>> ELSE <<>>
          /\ OfType(found, "gdpr") = IF m.pii THEN <<PiiViolation>> ELSE <<>>
          /\ TypeSeq(found) = SelectSeq(CatalogOrder, LAMBDA ty : ty \in TypesOf(found))
          /\ (m.pii /\ ~m.wifi /\ ~m.hacking /\ ~m.violence) =>
               /\ Len(found) = 1 /\ found[1].severity = 85
               /\ (Evaluated(t) /\ ret[t].violations = found) =>
                    (ret[t].status = "pending" /\ ret[t].severity = "high")

\* the detector has run on a text that matches WiFi, violence and
\* personal-information patterns and returned the three violations, and an
\* evaluation of a text that matches personal-information patterns only has
\* returned pending/high
C28_Witness ==
  \E t, u \in Tasks :
    /\ legacy[t].ran
    /\ TypeSeq(legacy[t].violations) = CatalogOrder
    /\ Evaluated(u) /\ TypeSeq(legacy[u].violations) = <<"gdpr">>
    /\ ret[u].violations = legacy[u].violations
    /\ ret[u].status = "pending" /\ ret[u].severity = "high"

\* the detector has run on a text that matches violence patterns only and
\* on one that matches violence and general hacking patterns
C28_WitnessViolence ==
  \E t, u \in Tasks :
    /\ legacy[t].ran /\ TypeSeq(legacy[t].violations) = <<"violence">>
    /\ legacy[u].ran /\ TypeSeq(legacy[u].violations) = <<"illegal_activity", "violence">>

C30_LocalOnlyUntilConstructionProbe ==
  ctor = "probing" =>
    /\ ~inkeepAvailable
    /\ \A t \in Tasks :
         Evaluating(t) =>
           /\ ~useInkeep[t] /\ ~result[t].settled
           /\ Evaluated(t) /\ ret[t].violations = legacy[t].violations

\* no call has used, or is using, the remote tier
NoRemoteUse ==
  \A t \in Tasks :
    /\ pc[t] \notin {"awaitInkeep", "awaitInsights"}
    /\ Evaluating(t) => (~useInkeep[t] /\ ~result[t].settled)
    /\ (op[t] = "getGovernanceInsights" /\ pc[t] = "done") =>
         (ret[t] = ZeroInsights /\ ~result[t].settled)

\* every probe a call has waited for answered false
ProbesAnsweredFalse ==
  \A t \in Tasks :
    /\ ProbeStored(t) => result[t] = Returns(FALSE)
    /\ StatusReturned(t) => ~ret[t].inkeepAvailable

\* C31: the client's flag never changes, whatever switchAgentType does to
\* the orchestrator's flag; and while the client's flag is off every probe
\* answers false whatever the service would have answered, the cached
\* availability stays false, and no processInteraction or
\* getGovernanceInsights call uses the remote tier.
C31_ClientFlagOffMeansLocalOnly ==
  [][/\ isEnabled' = isEnabled
     /\ ~isEnabled => (~inkeepAvailable /\ NoRemoteUse /\ ProbesAnsweredFalse)']_vars

\* with the client's flag off and the orchestrator's flag on, a
\* switchAgentType(true) has waited for its probe and an evaluation after it
\* has been decided by the local detector
C31_Witness ==
  \E t, u \in Tasks :
    /\ ~isEnabled /\ useInkeepAgents /\ ctor = "done"
    /\ t < u
    /\ op[t] = "switchAgentType" /\ arg[t].useInkeep /\ ProbeStored(t)
    /\ Evaluated(u) /\ ~useInkeep[u]

\* with the client's flag off and the orchestrator's flag on, a getStatus has
\* waited for its probe and a getGovernanceInsights after it has returned the
\* zero summary
C31_WitnessStatusAndInsights ==
  \E t, u \in Tasks :
    /\ ~isEnabled /\ useInkeepAgents
    /\ t < u
    /\ StatusReturned(t) /\ ProbeStored(t) /\ ret[t].usingInkeep
    /\ op[u] = "getGovernanceInsights" /\ pc[u] = "done" /\ ret[u] = ZeroInsights

\* C32: in every record getStatus has returned, agentType is inkeep exactly
\* when the record's usingInkeep and inkeepAvailable are both true, and
\* legacy otherwise; and the record is built in the step that returns it,
\* from the flag and the cached availability as that step leaves them, also
\* when a switchAgentType or another probe has completed during the await.
C32_StatusRecordConsistent ==
  [][\A t \in Tasks :
       (~StatusReturned(t) /\ StatusReturned(t)') =>
         /\ ret'[t].agentType \in {"inkeep", "legacy"}
         /\ ret'[t].agentType = "inkeep" <=>
              (ret'[t].usingInkeep /\ ret'[t].inkeepAvailable)
         /\ ret'[t].usingInkeep = useInkeepAgents'
         /\ ret'[t].inkeepAvailable = inkeepAvailable']_vars

\* a getStatus awaited its probe while a switchAgentType(false) that started
\* after it completed; its probe answered true and it returned legacy with
\* usingInkeep false
C32_Witness ==
  \E t, u \in Tasks :
    /\ t < u
    /\ StatusReturned(t) /\ ProbeStored(t) /\ result[t] = Returns(TRUE)
    /\ op[u] = "switchAgentType" /\ ~arg[u].useInkeep /\ pc[u] = "done"
    /\ ~ret[t].usingInkeep /\ ret[t].inkeepAvailable /\ ret[t].agentType = "legacy"

====
